---------------------------- MODULE Spec2Model ----------------------------
(***************************************************************************)
(* A model of dnscheck (src/main.go): the bounded-concurrency domain       *)
(* pipeline of main, the ownership lookup fetchLLCWithRetry with its       *)
(* retry, backoff and endpoint fallback, the response decoding of          *)
(* queryLLCFromAPI / extractLLC, the verdict of aggregateDomainResult and  *)
(* the summary of buildReport.                                             *)
(*                                                                         *)
(* Strings are sequences of atoms (an atom stands for a run of bytes):     *)
(* strings.HasPrefix is the sequence-prefix test, strings.Contains of one  *)
(* atom is membership, and atoms compare case-sensitively ("Timeout" is    *)
(* not "timeout").  A time.Duration is its 64-bit two's-complement word,   *)
(* written as the set of the positions of its one-bits, so that the        *)
(* int64 arithmetic of backoffDuration keeps its width.                    *)
(*                                                                         *)
(* A run is timed or not.  A timed run has a clock, which counts ticks,     *)
(* TicksPerUnit of them to the second, the time unit of -rps: limiter.Wait *)
(* returns no sooner than the tick its token is there, time.Sleep no       *)
(* sooner than the tick its pause is over, and every other step takes      *)
(* whatever time it takes, the clock going on between the steps.  A run    *)
(* that is not timed has no clock: what it shows is the order of the       *)
(* steps, which is that of the timed run with the ticks left out, since    *)
(* every wait on the clock comes to an end.                                *)
(***************************************************************************)
EXTENDS Integers, Sequences, FiniteSets, TLC

\* ------------------------------------------------------------------ bounds

\* Most domains in the configuration of a run of the orchestrator.
MaxDomains == 3
\* Largest value of the flag -c in a run of the orchestrator.
MaxConcurrency == 2
\* Most addresses the resolver returns for one domain.
MaxIPs == 3
\* Most endpoints in the flag -api.
MaxEndpoints == 2
\* Largest value of the flag -retry (the smallest modelled is -1).
MaxRetries == 2
\* The value of -retry in the runs that reach the overflow of backoffDuration.
DeepRetries == 35
\* Most domains in the run whose report SpecReport builds.
MaxResults == 6

\* Ticks of the clock per half time unit: the grain of the modelled time.
TimeResolution == 1

\* Last tick at which the clock of a timed run still advances on its own.
MaxTime == 2

\* Most addresses of the one domain whose lookups a timed run spaces out.
MaxLookups == 5

\* ------------------------------------------------------------ strings

\* strings.HasPrefix(s, prefix)
HasPrefix(s, prefix) ==
    /\ Len(prefix) <= Len(s)
    /\ \A i \in 1..Len(prefix) : s[i] = prefix[i]

\* strings.Contains(s, atom) for a one-atom needle
Contains(s, atom) == \E i \in 1..Len(s) : s[i] = atom

\* ------------------------------------------------------------- errors

\* The nil error.
NilErr == [isNil |-> TRUE, msg |-> <<>>, inner |-> <<>>]

\* errors.New(msg): an error with the text msg that wraps nothing.
NewErr(m) == [isNil |-> FALSE, msg |-> m, inner |-> <<>>]

\* err.Error(); fmt prints a nil error under %w as "%!w(<nil>)".
ErrorText(e) == IF e.isNil THEN <<"%!w(<nil>)">> ELSE e.msg

\* fmt.Errorf(prefix + ": %w", e): the text of e after the prefix, e wrapped.
Errorf(prefix, e) ==
    [isNil |-> FALSE, msg |-> <<prefix>> \o ErrorText(e), inner |-> <<e>>]

\* errors.Unwrap(e)
Unwrap(e) == IF Len(e.inner) = 0 THEN NilErr ELSE e.inner[1]

\* ----------------------------------------------------- the API response

\* A decoded JSON value: a string, a number or null.
Str(s) == [t |-> "string", v |-> s]
Num(n) == [t |-> "number", v |-> <<n>>]   \* n: the digits, as an atom
Null == [t |-> "null", v |-> <<"<nil>">>]

\* The keys of the modelled documents, in the order fmt prints a map (sorted).
KeyOrder == <<"asn_description", "carrier", "error", "isp", "llc", "org">>

RECURSIVE RenderFrom(_, _)
RenderFrom(data, i) ==
    IF i > Len(KeyOrder) THEN <<>>
    ELSE (IF KeyOrder[i] \in DOMAIN data
              THEN <<KeyOrder[i]>> \o data[KeyOrder[i]].v
              ELSE <<>>) \o RenderFrom(data, i + 1)

\* fmt's %v of the decoded map: every key with its value.
Render(data) == RenderFrom(data, 1)

\* possibleKeys with its first two keys exchanged.
possibleKeysIspFirst == <<"isp", "llc", "carrier", "org", "asn_description">>

possibleKeys == <<"llc", "isp", "carrier", "org", "asn_description">>

\* extractFrom without the test str != "".
RECURSIVE extractFromAnyString(_, _)
extractFromAnyString(data, i) ==
    IF i > Len(possibleKeys)
    THEN [llc |-> <<>>,
          err |-> NewErr(<<"cannot extract the LLC field, response:">> \o Render(data))]
    ELSE LET key == possibleKeys[i] IN
         IF key \in DOMAIN data /\ data[key].t = "string"
         THEN [llc |-> data[key].v, err |-> NilErr]
         ELSE extractFromAnyString(data, i + 1)

RECURSIVE extractFrom(_, _)
extractFrom(data, i) ==
    IF i > Len(possibleKeys)
    THEN [llc |-> <<>>,
          err |-> NewErr(<<"cannot extract the LLC field, response:">> \o Render(data))]
    ELSE LET key == possibleKeys[i] IN
         IF /\ key \in DOMAIN data
            /\ data[key].t = "string"
            /\ data[key].v # <<>>
         THEN [llc |-> data[key].v, err |-> NilErr]
         ELSE extractFrom(data, i + 1)

\* extractLLC(data): the first candidate key holding a non-empty string.
extractLLC(data) == extractFrom(data, 1)

\* What one HTTP exchange can come to: client.Get fails (neterr), or a response
\* arrives with a status and then io.ReadAll fails (readerr), the body is not a
\* JSON object (badjson), or the body is a JSON object (doc).
StatusOK == "200"
NetErr(m) == [kind |-> "neterr", msg |-> m, status |-> "", data |-> <<>>]
Status(code) == [kind |-> "doc", msg |-> <<>>, status |-> code, data |-> <<>>]   \* code # "200": the body is never read
ReadErr(m) == [kind |-> "readerr", msg |-> m, status |-> StatusOK, data |-> <<>>]
BadJSON(m) == [kind |-> "badjson", msg |-> m, status |-> StatusOK, data |-> <<>>]
Doc(d) == [kind |-> "doc", msg |-> <<>>, status |-> StatusOK, data |-> d]

\* queryLLCFromAPI(ip, baseURL, timeout), as a function of the exchange.
queryLLCFromAPI(resp) ==
    IF resp.kind = "neterr"
    THEN [llc |-> <<>>, err |-> Errorf("HTTP request failed", NewErr(resp.msg))]
    ELSE IF resp.status # StatusOK
    THEN [llc |-> <<>>,
          err |-> NewErr(<<"API returned a non-200 status", resp.status>>)]
    ELSE IF resp.kind = "readerr"
    THEN [llc |-> <<>>, err |-> Errorf("reading the body failed", NewErr(resp.msg))]
    ELSE IF resp.kind = "badjson"
    THEN [llc |-> <<>>, err |-> Errorf("JSON decoding failed", NewErr(resp.msg))]
    ELSE extractLLC(resp.data)

\* isRetryable(err)
isRetryable(err) ==
    IF err.isNil THEN FALSE
    ELSE Contains(err.msg, "timeout") \/ Contains(err.msg, "EOF")

\* ------------------------------------------------------------ durations

WordBits == 0..63

\* time.Second = 1000000000 ns
SecondBits == {9, 11, 14, 15, 17, 19, 20, 23, 24, 25, 27, 28, 29}

\* 2^a seconds as a natural number of nanoseconds (no width).
Pow2Seconds(a) == {b + a : b \in SecondBits}

\* backoffDuration(attempt) = time.Duration(1<<uint(attempt)) * time.Second,
\* in int64: the product keeps its low 64 bits.
backoffDuration(attempt) == {b + attempt : b \in SecondBits} \cap WordBits

\* time.Sleep(d) returns at once for d <= 0; Slept(d) is the time it pauses.
Slept(d) == IF 63 \in d THEN {} ELSE d

\* ------------------------------------------------------------ the verdict

\* The expected-prefix loop of aggregateDomainResult (and of buildReport).
MatchesAny(llc, expected) ==
    \E k \in 1..Len(expected) : HasPrefix(llc, expected[k])

\* aggregateLoop without the test of res.Error: a failed result counts by its
\* label.
RECURSIVE aggregateLoopByLabel(_, _, _, _)
aggregateLoopByLabel(expected, ipResults, i, flags) ==
    IF i > Len(ipResults) THEN flags
    ELSE IF MatchesAny(ipResults[i].ActualLLC, expected)
    THEN aggregateLoopByLabel(expected, ipResults, i + 1,
                              [flags EXCEPT !.anySuccess = TRUE])
    ELSE aggregateLoopByLabel(expected, ipResults, i + 1,
                              [flags EXCEPT !.allMatch = FALSE])

\* The loop of aggregateDomainResult over ipResults[i..], carrying its flags.
RECURSIVE aggregateLoop(_, _, _, _)
aggregateLoop(expected, ipResults, i, flags) ==
    IF i > Len(ipResults) THEN flags
    ELSE LET res == ipResults[i] IN
         IF ~res.Error.isNil
         THEN aggregateLoop(expected, ipResults, i + 1,
                            [flags EXCEPT !.allMatch = FALSE])
         ELSE IF MatchesAny(res.ActualLLC, expected)
         THEN aggregateLoop(expected, ipResults, i + 1,
                            [flags EXCEPT !.anySuccess = TRUE])
         ELSE aggregateLoop(expected, ipResults, i + 1,
                            [flags EXCEPT !.allMatch = FALSE])

\* Polluted with the strict rule in both modes.
PollutedAllMustMatch(flags, strictMode) == ~flags.allMatch

\* The verdict of aggregateDomainResult from the flags and the mode.
Polluted(flags, strictMode) ==
    IF strictMode THEN ~flags.allMatch ELSE ~flags.anySuccess

\* aggregateDomainResult(domain, expected, ipResults, strict)
aggregateDomainResult(domain, expected, ipResults, strictMode) ==
    LET flags == aggregateLoop(expected, ipResults, 1,
                               [anySuccess |-> FALSE, allMatch |-> TRUE])
        polluted == Polluted(flags, strictMode)
    IN  [Domain |-> domain,
         Expected |-> expected,
         IPResults |-> ipResults,
         IsPolluted |-> polluted,
         Summary |-> IF strictMode
                     THEN (IF polluted THEN "strict-polluted" ELSE "strict-clean")
                     ELSE (IF polluted THEN "lenient-polluted" ELSE "lenient-clean")]

\* ------------------------------------------------------------- the report

\* pollutionLevel with the boundaries on the wrong side.
pollutionLevelInclusive(num, den) ==
    IF num <= 20 * den THEN "Normal"
    ELSE IF num <= 40 * den THEN "Mild"
    ELSE IF num <= 60 * den THEN "Moderate"
    ELSE "Severe"

\* pollutionLevel(rate), the rate being num/den percent (den > 0).
pollutionLevel(num, den) ==
    IF num < 20 * den THEN "Normal"
    ELSE IF num < 40 * den THEN "Mild"
    ELSE IF num < 60 * den THEN "Moderate"
    ELSE "Severe"

\* CountPolluted with the test inverted.
RECURSIVE CountClean(_, _)
CountClean(rs, i) ==
    IF i > Len(rs) THEN 0
    ELSE (IF rs[i].IsPolluted THEN 0 ELSE 1) + CountClean(rs, i + 1)

RECURSIVE CountPolluted(_, _)
CountPolluted(rs, i) ==
    IF i > Len(rs) THEN 0
    ELSE (IF rs[i].IsPolluted THEN 1 ELSE 0) + CountPolluted(rs, i + 1)

\* The statistics of buildReport(results); the rate is rateNum/rateDen percent.
buildReport(rs) ==
    LET total == Len(rs)
        polluted == CountPolluted(rs, 1)
        num == IF total > 0 THEN polluted * 100 ELSE 0
        den == IF total > 0 THEN total ELSE 1
    IN  [total |-> total, polluted |-> polluted,
         rateNum |-> num, rateDen |-> den,
         level |-> pollutionLevel(num, den)]

\* --------------------------------------------------------------- state

VARIABLES
    \* the configuration: sites.yaml and the flags -c, -strict, -rps, -retry, -api
    domains,        \* config.Domains: a sequence of [Name, ExpectedLlcs]
    concurrency,    \* *concurrency
    strict,         \* *strict
    rps,            \* *rps, in tokens per time unit
    limiter,        \* limiter != nil, that is *rps > 0
    maxRetries,     \* *maxRetries
    apiList,        \* apiList: the endpoints, in the order of -api
    exchanges,      \* what the endpoints of this run may answer to a request
    answers,        \* the address lists the resolver of this run may return
    timed,          \* whether the run has a clock
    \* main
    mainPc,         \* "spawn", "collect", "report", "exit"
    spawned,        \* the domains the loop of main has started a task for
    wg,             \* the counter of the WaitGroup
    closerPc,       \* the goroutine of wg.Wait(); close(results): "idle", "wait", "closed"
    sem,            \* the values buffered in the channel sem
    results,        \* the values buffered in the channel results
    domainResults,  \* domainResults of main
    report,         \* the statistics of buildReport, once main has called it
    \* the task of each domain
    pc,             \* where the task is
    ips,            \* what r.LookupIP returned
    ipIdx,          \* the index in ips of the address being looked up
    ipResults,      \* ipResults of the task
    out,            \* the DomainResult the task is about to send
    \* fetchLLCWithRetry, in the task of each domain
    ep,             \* the index in apiList of baseURL
    attempt,        \* attempt
    lastErr,        \* lastErr
    \* history
    trace,          \* per task, the token, requests and sleeps of its latest lookup
    lastReq,        \* per task, the latest request of that lookup and its answer
    \* the clock of a timed run and what waits on it
    now,            \* the clock, in ticks
    bucket,         \* per limiter, the tick at which its bucket is full again
    tokenTimes,     \* the ticks at which limiter.Wait returned, in the order it did
    wake,           \* per task, the tick at which the pause of its time.Sleep is over
    \* what the environment gave each task
    resolved,       \* per task, what r.LookupIP returned to it
    answered,       \* per task and address, the answer to its latest request
    \* a call of aggregateDomainResult on its own
    callArgs,       \* the arguments of the call
    callRet         \* what the call returned

cfgVars == <<domains, concurrency, strict, rps, limiter, maxRetries, apiList, exchanges,
             answers, timed>>
mainVars == <<mainPc, spawned, wg, closerPc, sem, results, domainResults, report>>
taskVars == <<pc, ips, ipIdx, ipResults, out>>
fetchVars == <<ep, attempt, lastErr>>
histVars == <<trace, lastReq>>
limVars == <<now, bucket, tokenTimes, wake>>
envVars == <<resolved, answered>>
callVars == <<callArgs, callRet>>
vars == <<cfgVars, mainVars, taskVars, fetchVars, histVars, limVars, envVars, callVars>>

Tasks == 1..Len(domains)

\* The DomainResult of a task that has not produced one.
NoResult == [Domain |-> 0, Expected |-> <<>>, IPResults |-> <<>>,
             IsPolluted |-> FALSE, Summary |-> ""]

\* The latest request of a lookup that has made none.
NoRequest == [ep |-> 0, attempt |-> 0, exch |-> Doc(<<>>)]

\* What r.LookupIP returned to a task: nothing yet, an error, or addresses.
NotResolved == [state |-> "pending", ips |-> <<>>]
ResolveError == [state |-> "error", ips |-> <<>>]
ResolvedTo(l) == [state |-> "answer", ips |-> l]

\* The answer to the latest request of a lookup that has made none.
Unasked == [kind |-> "none", msg |-> <<>>, status |-> "", data |-> <<>>]

\* The arguments of a call of aggregateDomainResult when there is none.
NoCall == [domain |-> 0, expected |-> <<>>, ipResults |-> <<>>, strict |-> FALSE]

\* The statistics before buildReport has run.
NoReport == [total |-> -1, polluted |-> -1, rateNum |-> 0, rateDen |-> 1, level |-> ""]

\* ------------------------------------------------- the inputs of a run

\* Labels and expected-prefix lists: AMAZON-02 starts with AMAZON, AMAZONX
\* does not start with AMAZON-.
ExpectedAmazon == << <<"AMAZON">> >>
ExpectedTwo == << <<"GOOGLE">>, <<"AMAZON", "-">> >>

\* The answers of an endpoint: every way queryLLCFromAPI can end.
OkAmazon == Doc([llc |-> Str(<<"AMAZON", "-", "02">>)])
OkAmazonX == Doc([llc |-> Str(<<>>), org |-> Str(<<"AMAZON", "X">>)])
OkOther == Doc([isp |-> Str(<<"CLOUDFLARE">>), error |-> Null])
ConnReset == NetErr(<<"read tcp: ", "connection reset by peer">>)
ConnEOF == NetErr(<<"EOF">>)
DialTimeout == NetErr(<<"dial tcp: i/o ", "timeout">>)
ClientTimeout ==
    NetErr(<<"context deadline exceeded (Client.", "Timeout", " exceeded while awaiting headers)">>)
Status500 == Status("500")
Status404 == Status("404")
Truncated == ReadErr(<<"unexpected ", "EOF">>)
NotJSON == BadJSON(<<"invalid character '<' looking for beginning of value">>)
NoField == Doc([error |-> Str(<<"not found">>)])
NoFieldTimeout == Doc([error |-> Str(<<"upstream ", "timeout">>)])
NoFieldNumber == Doc([llc |-> Num("7")])

AllExchanges ==
    {OkAmazon, OkAmazonX, OkOther, ConnReset, ConnEOF, DialTimeout, ClientTimeout,
     Status500, Status404, Truncated, NotJSON, NoField, NoFieldTimeout, NoFieldNumber}

\* The resolver's answer of k addresses, in an order that is not the sorted one.
Addrs(k) == [i \in 1..k |-> k + 1 - i]

\* The answers of up to n addresses.
AddrLists(n) == {Addrs(k) : k \in 0..n}

\* The state main is in when it reaches its worker pool (line 84), in a run
\* that is timed (t) or not.
InitRun(doms, c, s, q, t, r, apis, ex, ans) ==
    /\ domains = doms
    /\ concurrency = c
    /\ strict = s
    /\ rps = q
    /\ limiter = (q > 0)
    /\ maxRetries = r
    /\ apiList = apis
    /\ exchanges = ex
    /\ answers = ans
    /\ timed = t
    /\ mainPc = "spawn"
    /\ spawned = 0
    /\ wg = 0
    /\ closerPc = "idle"
    /\ sem = 0
    /\ results = <<>>
    /\ domainResults = <<>>
    /\ report = NoReport
    /\ pc = [d \in 1..Len(doms) |-> "unspawned"]
    /\ ips = [d \in 1..Len(doms) |-> <<>>]
    /\ ipIdx = [d \in 1..Len(doms) |-> 0]
    /\ ipResults = [d \in 1..Len(doms) |-> <<>>]
    /\ out = [d \in 1..Len(doms) |-> NoResult]
    /\ ep = [d \in 1..Len(doms) |-> 0]
    /\ attempt = [d \in 1..Len(doms) |-> 0]
    /\ lastErr = [d \in 1..Len(doms) |-> NilErr]
    /\ trace = [d \in 1..Len(doms) |-> <<>>]
    /\ lastReq = [d \in 1..Len(doms) |-> NoRequest]
    /\ now = 0
    /\ bucket = [l \in 0..Len(doms) |-> 0]
    /\ tokenTimes = <<>>
    /\ wake = [d \in 1..Len(doms) |-> 0]
    /\ resolved = [d \in 1..Len(doms) |-> NotResolved]
    /\ answered = [d \in 1..Len(doms) |-> <<>>]
    /\ callArgs = NoCall
    /\ callRet = NoResult

\* The default of the flag -rps (line 58).
DefaultRps == 2

\* The same state of a run that is not timed, the limiter being given by
\* whether there is one: -rps at its default, or 0.
InitWith(doms, c, s, lim, r, apis, ex, ans) ==
    InitRun(doms, c, s, IF lim THEN DefaultRps ELSE 0, FALSE, r, apis, ex, ans)

\* n domains, each expecting the prefixes of the list expected.
DomainList(n, expected) == [d \in 1..n |-> [Name |-> d, ExpectedLlcs |-> expected]]

\* n endpoints.
Endpoints(n) == [e \in 1..n |-> e]

\* ---------------------------------------------------------------- main

\* The loop of line 89: wg.Add(1) and go func(dc) for the next domain.
Spawn ==
    /\ mainPc = "spawn"
    /\ spawned < Len(domains)
    /\ spawned' = spawned + 1
    /\ wg' = wg + 1
    /\ pc' = [pc EXCEPT ![spawned + 1] = "acquire"]
    /\ UNCHANGED <<cfgVars, mainPc, closerPc, sem, results, domainResults, report,
                   ips, ipIdx, ipResults, out, fetchVars, histVars, limVars, envVars, callVars>>

\* Line 143: the loop is over, main starts the closing goroutine and goes on
\* to range over results.
StartCloser ==
    /\ mainPc = "spawn"
    /\ spawned = Len(domains)
    /\ closerPc' = "wait"
    /\ mainPc' = "collect"
    /\ UNCHANGED <<cfgVars, spawned, wg, sem, results, domainResults, report,
                   taskVars, fetchVars, histVars, limVars, envVars, callVars>>

\* CloseResults without wg.Wait(): the channel is closed while tasks still run.
CloseResultsNoWait ==
    /\ closerPc = "wait"
    /\ closerPc' = "closed"
    /\ UNCHANGED <<cfgVars, mainPc, spawned, wg, sem, results, domainResults, report,
                   taskVars, fetchVars, histVars, limVars, envVars, callVars>>

\* Lines 144-145: wg.Wait() returns once the counter is 0, then close(results).
CloseResults ==
    /\ closerPc = "wait"
    /\ wg = 0
    /\ closerPc' = "closed"
    /\ UNCHANGED <<cfgVars, mainPc, spawned, wg, sem, results, domainResults, report,
                   taskVars, fetchVars, histVars, limVars, envVars, callVars>>

\* Lines 150-152: one iteration of the range over results.
Collect ==
    /\ mainPc = "collect"
    /\ results # <<>>
    /\ domainResults' = Append(domainResults, Head(results))
    /\ results' = Tail(results)
    /\ UNCHANGED <<cfgVars, mainPc, spawned, wg, closerPc, sem, report,
                   taskVars, fetchVars, histVars, limVars, envVars, callVars>>

\* The range over results ends: the channel is closed and drained.
EndCollect ==
    /\ mainPc = "collect"
    /\ results = <<>>
    /\ closerPc = "closed"
    /\ mainPc' = "report"
    /\ UNCHANGED <<cfgVars, spawned, wg, closerPc, sem, results, domainResults, report,
                   taskVars, fetchVars, histVars, limVars, envVars, callVars>>

\* Line 155: buildReport(domainResults).
Report ==
    /\ mainPc = "report"
    /\ report' = buildReport(domainResults)
    /\ mainPc' = "exit"
    /\ UNCHANGED <<cfgVars, spawned, wg, closerPc, sem, results, domainResults,
                   taskVars, fetchVars, histVars, limVars, envVars, callVars>>

\* ------------------------------------------------------- a domain's task

\* SemCapacity with one slot too many.
SemCapacityOneMore == concurrency + 1

\* The capacity of the channel sem (line 84).
SemCapacity == concurrency

\* ResultsCapacity with one place too few.
ResultsCapacityOneLess == Len(domains) - 1

\* The capacity of the channel results (line 86).
ResultsCapacity == Len(domains)

\* Line 93: sem <- struct{}{} goes through when the buffer has room.
Acquire(d) ==
    /\ pc[d] = "acquire"
    /\ sem < SemCapacity
    /\ sem' = sem + 1
    /\ pc' = [pc EXCEPT ![d] = "resolve"]
    /\ UNCHANGED <<cfgVars, mainPc, spawned, wg, closerPc, results, domainResults,
                   report, ips, ipIdx, ipResults, out, fetchVars, histVars, limVars, envVars, callVars>>

\* Where the loop of line 122 takes the task for its next address.
LoopEntry == IF limiter THEN "wait" ELSE "fetch"

\* FailedResult without the verdict: IsPolluted left at its zero value.
FailedResultUnmarked(d, summary) ==
    [Domain |-> domains[d].Name, Expected |-> domains[d].ExpectedLlcs,
     IPResults |-> <<>>, IsPolluted |-> FALSE, Summary |-> summary]

\* The DomainResult of lines 102-107 and 111-116.
FailedResult(d, summary) ==
    [Domain |-> domains[d].Name, Expected |-> domains[d].ExpectedLlcs,
     IPResults |-> <<>>, IsPolluted |-> TRUE, Summary |-> summary]

\* Resolve without the check of line 110: an empty answer goes through the
\* loop of line 122, which runs no iteration, to the aggregation of line 137.
ResolveEmptyUnchecked(d) ==
    /\ pc[d] = "resolve"
    /\ \/ /\ out' = [out EXCEPT ![d] = FailedResult(d, "resolution-failed")]
          /\ pc' = [pc EXCEPT ![d] = "send"]
          /\ resolved' = [resolved EXCEPT ![d] = ResolveError]
          /\ UNCHANGED <<ips, ipIdx>>
       \/ \E l \in answers :
             /\ resolved' = [resolved EXCEPT ![d] = ResolvedTo(l)]
             /\ IF Len(l) = 0
                THEN /\ pc' = [pc EXCEPT ![d] = "aggregate"]
                     /\ UNCHANGED <<ips, ipIdx, out>>
                ELSE /\ ips' = [ips EXCEPT ![d] = l]
                     /\ ipIdx' = [ipIdx EXCEPT ![d] = 1]
                     /\ pc' = [pc EXCEPT ![d] = LoopEntry]
                     /\ UNCHANGED out
    /\ UNCHANGED <<cfgVars, mainVars, ipResults, fetchVars, histVars, limVars, answered, callVars>>

\* Lines 100-121: r.LookupIP fails, returns no address, or returns addresses.
Resolve(d) ==
    /\ pc[d] = "resolve"
    /\ \/ /\ out' = [out EXCEPT ![d] = FailedResult(d, "resolution-failed")]
          /\ pc' = [pc EXCEPT ![d] = "send"]
          /\ resolved' = [resolved EXCEPT ![d] = ResolveError]
          /\ UNCHANGED <<ips, ipIdx>>
       \/ \E l \in answers :
             /\ resolved' = [resolved EXCEPT ![d] = ResolvedTo(l)]
             /\ IF Len(l) = 0
                THEN /\ out' = [out EXCEPT ![d] = FailedResult(d, "no-ipv4-address")]
                     /\ pc' = [pc EXCEPT ![d] = "send"]
                     /\ UNCHANGED <<ips, ipIdx>>
                ELSE /\ ips' = [ips EXCEPT ![d] = l]
                     /\ ipIdx' = [ipIdx EXCEPT ![d] = 1]
                     /\ pc' = [pc EXCEPT ![d] = LoopEntry]
                     /\ UNCHANGED out
    /\ UNCHANGED <<cfgVars, mainVars, ipResults, fetchVars, histVars, limVars, answered, callVars>>

\* An entry of trace: a token taken from the limiter, a request and whether it
\* succeeded, or a sleep and how long it paused.
Event(t, e, a, ok, dur) == [t |-> t, ep |-> e, attempt |-> a, ok |-> ok, dur |-> dur]

\* The size of the bucket, the second argument of rate.NewLimiter (line 73).
Burst == 1

\* The ticks of one time unit, and of the refill of one token at -rps.
TicksPerUnit == 2 * TimeResolution
Interval == TicksPerUnit \div rps

\* The token bucket: full at the start and refilled by one token per
\* interval up to burst tokens.  Its state is the tick at which it is full
\* again: a token is in it from (burst - 1) intervals before that tick on, and
\* taking one at tick t puts that tick one interval after the later of t and
\* itself.
TokenReadyAt(state, burst, interval) == state - (burst - 1) * interval
BucketAfter(state, t, interval) == (IF t > state THEN t ELSE state) + interval

\* LimiterOf with a limiter built inside the goroutine: one per task.
LimiterPerTask(d) == d

\* The limiter a task waits on: the one of lines 71-75, built once before the
\* loop and shared by every goroutine.
LimiterOf(d) == 0

\* Whether the bucket of the limiter of task d holds a token at this tick.
TokenReady(d) == now >= TokenReadyAt(bucket[LimiterOf(d)], Burst, Interval)

\* Lines 124-126: limiter.Wait blocks until the bucket holds a token and
\* returns with it.
Wait(d) ==
    /\ pc[d] = "wait"
    /\ IF timed
       THEN /\ TokenReady(d)
            /\ bucket' = [bucket EXCEPT ![LimiterOf(d)] = BucketAfter(@, now, Interval)]
            /\ tokenTimes' = Append(tokenTimes, now)
       ELSE UNCHANGED <<bucket, tokenTimes>>
    /\ trace' = [trace EXCEPT ![d] = <<Event("token", 0, 0, FALSE, {})>>]
    /\ lastReq' = [lastReq EXCEPT ![d] = NoRequest]
    /\ pc' = [pc EXCEPT ![d] = "fetch"]
    /\ UNCHANGED <<cfgVars, mainVars, ips, ipIdx, ipResults, out, fetchVars, now, wake,
                   envVars, callVars>>

\* Whether a task is held up until a later tick: in limiter.Wait for its
\* token, or in time.Sleep for the end of its pause.
Held(d) ==
    \/ pc[d] = "wait" /\ ~TokenReady(d)
    \/ pc[d] = "sleep" /\ now < wake[d]

\* The clock of a timed run goes on by one tick: on its own up to MaxTime,
\* while the program does whatever it does, and past that for as long as a
\* task is held up until a later tick.
Tick ==
    /\ timed
    /\ now < MaxTime \/ \E d \in Tasks : Held(d)
    /\ now' = now + 1
    /\ UNCHANGED <<cfgVars, mainVars, taskVars, fetchVars, histVars, bucket, tokenTimes,
                   wake, envVars, callVars>>

\* ---------------------------------------------------- fetchLLCWithRetry

\* LoopCond with one iteration too many.
LoopCondOneMore(a) == a <= maxRetries + 1

\* Line 187, the condition of the inner loop.
LoopCond(a) == a <= maxRetries

\* Line 194.
ShouldRetry(err, a) == isRetryable(err) /\ a < maxRetries

\* EnterAttempt with the counter declared outside the loop over the endpoints.
EnterAttemptCarried(prev) == prev

\* Line 187, attempt := 0: the counter an endpoint starts with, prev being the
\* counter the endpoint before it ended with.
EnterAttempt(prev) == 0

\* Whether the loops reach a request on endpoint e.
Reaches(e, a) == e <= Len(apiList) /\ LoopCond(a)

\* ReturnLookup that puts the result in front of the earlier ones.
ReturnLookupInFront(d, llc, err) ==
    /\ ipResults' = [ipResults EXCEPT ![d] =
          <<[IP |-> ips[d][ipIdx[d]], ActualLLC |-> llc, Error |-> err]>> \o @]
    /\ ep' = [ep EXCEPT ![d] = 0]
    /\ attempt' = [attempt EXCEPT ![d] = 0]
    /\ lastErr' = [lastErr EXCEPT ![d] = NilErr]
    /\ IF ipIdx[d] < Len(ips[d])
       THEN /\ ipIdx' = [ipIdx EXCEPT ![d] = @ + 1]
            /\ pc' = [pc EXCEPT ![d] = LoopEntry]
       ELSE /\ ipIdx' = ipIdx
            /\ pc' = [pc EXCEPT ![d] = "aggregate"]

\* Lines 128-133 after fetchLLCWithRetry has returned (llc, err): the result is
\* appended and the loop of line 122 goes on.
ReturnLookup(d, llc, err) ==
    /\ ipResults' = [ipResults EXCEPT ![d] =
          Append(@, [IP |-> ips[d][ipIdx[d]], ActualLLC |-> llc, Error |-> err])]
    /\ ep' = [ep EXCEPT ![d] = 0]
    /\ attempt' = [attempt EXCEPT ![d] = 0]
    /\ lastErr' = [lastErr EXCEPT ![d] = NilErr]
    /\ IF ipIdx[d] < Len(ips[d])
       THEN /\ ipIdx' = [ipIdx EXCEPT ![d] = @ + 1]
            /\ pc' = [pc EXCEPT ![d] = LoopEntry]
       ELSE /\ ipIdx' = ipIdx
            /\ pc' = [pc EXCEPT ![d] = "aggregate"]

\* Lines 198-202: the inner loop of endpoint e is left at counter a with
\* lastErr = err; the next endpoint is tried, or line 202 returns.
Advance(d, e, a, err) ==
    IF Reaches(e + 1, EnterAttempt(a))
    THEN /\ ep' = [ep EXCEPT ![d] = e + 1]
         /\ attempt' = [attempt EXCEPT ![d] = EnterAttempt(a)]
         /\ lastErr' = [lastErr EXCEPT ![d] = err]
         /\ pc' = [pc EXCEPT ![d] = "query"]
         /\ UNCHANGED <<ipResults, ipIdx>>
    ELSE ReturnLookup(d, <<>>, Errorf("all API attempts failed", err))

\* Lines 183-187: the call of fetchLLCWithRetry up to its first request.
FetchStart(d) ==
    /\ pc[d] = "fetch"
    /\ trace' = [trace EXCEPT ![d] = IF limiter THEN @ ELSE <<>>]
    /\ lastReq' = [lastReq EXCEPT ![d] = NoRequest]
    /\ answered' = [answered EXCEPT ![d] = Append(@, Unasked)]
    /\ Advance(d, 0, 0, NilErr)
    /\ UNCHANGED <<cfgVars, mainVars, ips, out, limVars, resolved, callVars>>

\* The ticks time.Sleep(backoffDuration(a)) pauses for: those of 2^a seconds
\* while the product fits the 64 bits, none once it has come out negative
\* (every attempt from 34 to DeepRetries + 1).
SleepTicks(a) ==
    IF Slept(backoffDuration(a)) = Pow2Seconds(a) THEN (2 ^ a) * TicksPerUnit ELSE 0

\* Lines 188-199: one request and what the loop does with its outcome; a
\* failure that is retried goes into time.Sleep (line 195) at once.
Query(d) ==
    /\ pc[d] = "query"
    /\ \E x \in exchanges :
          LET r == queryLLCFromAPI(x)
              e == ep[d]
              a == attempt[d]
          IN  /\ lastReq' = [lastReq EXCEPT ![d] = [ep |-> e, attempt |-> a, exch |-> x]]
              /\ answered' = [answered EXCEPT ![d] = [@ EXCEPT ![Len(@)] = x]]
              /\ trace' = [trace EXCEPT ![d] =
                    Append(@, Event("req", e, a, r.err.isNil, {}))]
              /\ IF r.err.isNil
                 THEN ReturnLookup(d, r.llc, NilErr)
                 ELSE IF ShouldRetry(r.err, a)
                 THEN /\ lastErr' = [lastErr EXCEPT ![d] = r.err]
                      /\ pc' = [pc EXCEPT ![d] = "sleep"]
                      /\ UNCHANGED <<ep, attempt, ipResults, ipIdx>>
                 ELSE Advance(d, e, a, r.err)
              /\ wake' = IF timed /\ ~r.err.isNil /\ ShouldRetry(r.err, a)
                         THEN [wake EXCEPT ![d] = now + SleepTicks(a)]
                         ELSE wake
    /\ UNCHANGED <<cfgVars, mainVars, ips, out, now, bucket, tokenTimes, resolved, callVars>>

\* Lines 195-196 and 187: time.Sleep(backoffDuration(attempt)) returns, no
\* sooner than its pause is over; attempt++ and the loop condition.
Sleep(d) ==
    /\ pc[d] = "sleep"
    /\ timed => now >= wake[d]
    /\ trace' = [trace EXCEPT ![d] =
          Append(@, Event("sleep", ep[d], attempt[d], FALSE,
                          Slept(backoffDuration(attempt[d]))))]
    /\ IF LoopCond(attempt[d] + 1)
       THEN /\ attempt' = [attempt EXCEPT ![d] = @ + 1]
            /\ pc' = [pc EXCEPT ![d] = "query"]
            /\ UNCHANGED <<ep, lastErr, ipResults, ipIdx>>
       ELSE Advance(d, ep[d], attempt[d] + 1, lastErr[d])
    /\ UNCHANGED <<cfgVars, mainVars, ips, out, lastReq, limVars, envVars, callVars>>

\* ------------------------------------------------- the end of the task

\* Aggregate in a closure that captured the loop variable of line 89 instead
\* of taking dc as its argument: every task sees the last domain.
AggregateCaptured(d) ==
    /\ pc[d] = "aggregate"
    /\ out' = [out EXCEPT ![d] =
          aggregateDomainResult(domains[Len(domains)].Name,
                                domains[Len(domains)].ExpectedLlcs,
                                ipResults[d], strict)]
    /\ pc' = [pc EXCEPT ![d] = "send"]
    /\ trace' = [trace EXCEPT ![d] = <<>>]
    /\ lastReq' = [lastReq EXCEPT ![d] = NoRequest]
    /\ UNCHANGED <<cfgVars, mainVars, ips, ipIdx, ipResults, fetchVars, limVars, envVars, callVars>>

\* Line 137: aggregateDomainResult on the task's ipResults.
Aggregate(d) ==
    /\ pc[d] = "aggregate"
    /\ out' = [out EXCEPT ![d] =
          aggregateDomainResult(domains[d].Name, domains[d].ExpectedLlcs,
                                ipResults[d], strict)]
    /\ pc' = [pc EXCEPT ![d] = "send"]
    /\ trace' = [trace EXCEPT ![d] = <<>>]
    /\ lastReq' = [lastReq EXCEPT ![d] = NoRequest]
    /\ UNCHANGED <<cfgVars, mainVars, ips, ipIdx, ipResults, fetchVars, limVars, envVars, callVars>>

\* Lines 102, 111 and 138: results <- out goes through when the buffer has room;
\* the task returns, and its locals are gone.
Send(d) ==
    /\ pc[d] = "send"
    /\ Len(results) < ResultsCapacity
    /\ results' = Append(results, out[d])
    /\ pc' = [pc EXCEPT ![d] = "release"]
    /\ out' = [out EXCEPT ![d] = NoResult]
    /\ ips' = [ips EXCEPT ![d] = <<>>]
    /\ ipIdx' = [ipIdx EXCEPT ![d] = 0]
    /\ ipResults' = [ipResults EXCEPT ![d] = <<>>]
    /\ UNCHANGED <<cfgVars, mainPc, spawned, wg, closerPc, sem, domainResults, report,
                   fetchVars, histVars, limVars, envVars, callVars>>

\* Release that gives no slot back: the deferred <-sem left out.
ReleaseNothing(d) ==
    /\ pc[d] = "release"
    /\ pc' = [pc EXCEPT ![d] = "wgdone"]
    /\ UNCHANGED <<cfgVars, mainVars, ips, ipIdx, ipResults, out, fetchVars, histVars, limVars, envVars, callVars>>

\* Line 94, deferred: <-sem.
Release(d) ==
    /\ pc[d] = "release"
    /\ sem > 0
    /\ sem' = sem - 1
    /\ pc' = [pc EXCEPT ![d] = "wgdone"]
    /\ UNCHANGED <<cfgVars, mainPc, spawned, wg, closerPc, results, domainResults,
                   report, ips, ipIdx, ipResults, out, fetchVars, histVars, limVars, envVars, callVars>>

\* Line 92, deferred: wg.Done(), and the goroutine ends.
WgDone(d) ==
    /\ pc[d] = "wgdone"
    /\ wg' = wg - 1
    /\ pc' = [pc EXCEPT ![d] = "done"]
    /\ UNCHANGED <<cfgVars, mainPc, spawned, closerPc, sem, results, domainResults,
                   report, ips, ipIdx, ipResults, out, fetchVars, histVars, limVars, envVars, callVars>>

Next ==
    \/ Spawn
    \/ StartCloser
    \/ CloseResults
    \/ Collect
    \/ EndCollect
    \/ Report
    \/ \E d \in Tasks : Acquire(d)
    \/ \E d \in Tasks : Resolve(d)
    \/ \E d \in Tasks : Wait(d)
    \/ \E d \in Tasks : FetchStart(d)
    \/ \E d \in Tasks : Query(d)
    \/ \E d \in Tasks : Sleep(d)
    \/ \E d \in Tasks : Aggregate(d)
    \/ \E d \in Tasks : Send(d)
    \/ \E d \in Tasks : Release(d)
    \/ \E d \in Tasks : WgDone(d)

\* --------------------------------------------------------- specifications

\* The orchestrator: up to MaxDomains domains under every concurrency limit up
\* to MaxConcurrency, each task resolving to at most one address, looked up on
\* one endpoint with one retry.
Init ==
    \E n \in 0..MaxDomains, c \in 1..MaxConcurrency, s \in BOOLEAN :
        InitWith(DomainList(n, ExpectedAmazon), c, s, TRUE, 1, Endpoints(1),
                 {OkAmazon, ConnEOF}, AddrLists(1))

Spec == Init /\ [][Next]_vars

\* One lookup in full: one domain resolving to one address, every answer an
\* endpoint can give, up to MaxEndpoints endpoints and every -retry from -1 to
\* MaxRetries, with and without a limiter.
InitLookup ==
    \E s \in BOOLEAN, lim \in BOOLEAN, r \in (-1)..MaxRetries, n \in 1..MaxEndpoints :
        InitWith(DomainList(1, ExpectedAmazon), 1, s, lim, r, Endpoints(n),
                 AllExchanges, AddrLists(1))

SpecLookup == InitLookup /\ [][Next]_vars

\* The verdict in full: one domain resolving to up to MaxIPs addresses, each
\* looked up on one endpoint that answers with a matching label, a label that
\* matches no prefix, or a failure; both modes and both prefix lists.
InitVerdict ==
    \E s \in BOOLEAN, lim \in BOOLEAN, expected \in {ExpectedAmazon, ExpectedTwo} :
        InitWith(DomainList(1, expected), 1, s, lim, 1, Endpoints(1),
                 {OkAmazon, OkAmazonX, OkOther, Status500, ConnEOF}, AddrLists(MaxIPs))

SpecVerdict == InitVerdict /\ [][Next]_vars

\* Long retry runs: -retry = DeepRetries, where the counter passes the
\* attempts whose backoff no longer fits the 64 bits of a time.Duration.
InitDeep ==
    \E lim \in BOOLEAN, n \in 1..2 :
        InitWith(DomainList(1, ExpectedAmazon), 1, FALSE, lim, DeepRetries, Endpoints(n),
                 {OkAmazon, ConnEOF, Status500}, AddrLists(1))

SpecDeep == InitDeep /\ [][Next]_vars

\* aggregateDomainResult on its own: the function called, outside any run of
\* main, on the results of up to MaxIPs addresses, each result a matching
\* label, a label that matches no prefix, a failure, or a failure that
\* carries a label; both modes and both prefix lists.
SomeErr == Errorf("all API attempts failed", NewErr(<<"API returned a non-200 status", "500">>))

ResultsOf(ip) ==
    {[IP |-> ip, ActualLLC |-> <<"AMAZON", "-", "02">>, Error |-> NilErr],
     [IP |-> ip, ActualLLC |-> <<"CLOUDFLARE">>, Error |-> NilErr],
     [IP |-> ip, ActualLLC |-> <<>>, Error |-> SomeErr],
     [IP |-> ip, ActualLLC |-> <<"AMAZON", "-", "02">>, Error |-> SomeErr]}

ResultLists(n) ==
    UNION {{l \in [1..k -> UNION {ResultsOf(ip) : ip \in 1..k}] :
               \A i \in 1..k : l[i].IP = Addrs(k)[i]} : k \in 0..n}

\* The arguments of the call are drawn; main has no domain and runs no task.
InitAggregate ==
    \E s \in BOOLEAN, expected \in {ExpectedAmazon, ExpectedTwo}, l \in ResultLists(MaxIPs) :
        /\ domains = <<>>
        /\ concurrency = 1
        /\ strict = FALSE
        /\ rps = 0
        /\ limiter = FALSE
        /\ maxRetries = 0
        /\ apiList = Endpoints(1)
        /\ exchanges = {}
        /\ answers = {}
        /\ timed = FALSE
        /\ mainPc = "spawn"
        /\ spawned = 0
        /\ wg = 0
        /\ closerPc = "idle"
        /\ sem = 0
        /\ results = <<>>
        /\ domainResults = <<>>
        /\ report = NoReport
        /\ pc = <<>>
        /\ ips = <<>>
        /\ ipIdx = <<>>
        /\ ipResults = <<>>
        /\ out = <<>>
        /\ ep = <<>>
        /\ attempt = <<>>
        /\ lastErr = <<>>
        /\ trace = <<>>
        /\ lastReq = <<>>
        /\ now = 0
        /\ bucket = [b \in 0..0 |-> 0]
        /\ tokenTimes = <<>>
        /\ wake = <<>>
        /\ resolved = <<>>
        /\ answered = <<>>
        /\ callArgs = [domain |-> 1, expected |-> expected, ipResults |-> l, strict |-> s]
        /\ callRet = NoResult

\* Lines 274-333: the call returns.
AggregateCall ==
    /\ callArgs # NoCall
    /\ callRet = NoResult
    /\ callRet' = aggregateDomainResult(callArgs.domain, callArgs.expected,
                                        callArgs.ipResults, callArgs.strict)
    /\ UNCHANGED <<cfgVars, mainVars, taskVars, fetchVars, histVars, limVars, envVars,
                   callArgs>>

NextAggregate == AggregateCall

SpecAggregate == InitAggregate /\ [][NextAggregate]_vars

\* buildReport on its own: main about to build the report (line 155) of a run
\* of up to MaxResults domains, each of which came out clean or failed to
\* resolve.
CleanResult(d) ==
    aggregateDomainResult(d, ExpectedAmazon,
        <<[IP |-> 1, ActualLLC |-> <<"AMAZON", "-", "02">>, Error |-> NilErr]>>, FALSE)

UnresolvedResult(d) ==
    [Domain |-> d, Expected |-> ExpectedAmazon, IPResults |-> <<>>,
     IsPolluted |-> TRUE, Summary |-> "resolution-failed"]

RunResults(n) ==
    UNION {{l \in [1..k -> UNION {{CleanResult(d), UnresolvedResult(d)} : d \in 1..k}] :
               \A i \in 1..k : l[i].Domain = i} : k \in 0..n}

InitReport ==
    \E l \in RunResults(MaxResults) :
        /\ domains = DomainList(Len(l), ExpectedAmazon)
        /\ concurrency = 1
        /\ strict = FALSE
        /\ rps = 0
        /\ limiter = FALSE
        /\ maxRetries = 0
        /\ apiList = Endpoints(1)
        /\ exchanges = {OkAmazon}
        /\ answers = {Addrs(1)}
        /\ timed = FALSE
        /\ mainPc = "report"
        /\ spawned = Len(l)
        /\ wg = 0
        /\ closerPc = "closed"
        /\ sem = 0
        /\ results = <<>>
        /\ domainResults = l
        /\ report = NoReport
        /\ pc = [d \in 1..Len(l) |-> "done"]
        /\ ips = [d \in 1..Len(l) |-> <<>>]
        /\ ipIdx = [d \in 1..Len(l) |-> 0]
        /\ ipResults = [d \in 1..Len(l) |-> <<>>]
        /\ out = [d \in 1..Len(l) |-> NoResult]
        /\ ep = [d \in 1..Len(l) |-> 0]
        /\ attempt = [d \in 1..Len(l) |-> 0]
        /\ lastErr = [d \in 1..Len(l) |-> NilErr]
        /\ trace = [d \in 1..Len(l) |-> <<>>]
        /\ lastReq = [d \in 1..Len(l) |-> NoRequest]
        /\ now = 0
        /\ bucket = [b \in 0..Len(l) |-> 0]
        /\ tokenTimes = <<>>
        /\ wake = [d \in 1..Len(l) |-> 0]
        /\ resolved = [d \in 1..Len(l) |->
              IF l[d] = CleanResult(d) THEN ResolvedTo(Addrs(1)) ELSE ResolveError]
        /\ answered = [d \in 1..Len(l) |->
              IF l[d] = CleanResult(d) THEN <<OkAmazon>> ELSE <<>>]
        /\ callArgs = NoCall
        /\ callRet = NoResult

NextReport == Report

SpecReport == InitReport /\ [][NextReport]_vars

\* extractLLC on its own: one task about to request (line 188) the only
\* endpoint, which answers with a JSON object that has any of the candidate
\* keys and the key "error", each with a string, the empty string or a number.
ProbeKeys == {"llc", "isp", "carrier", "org", "asn_description", "error"}

ProbeValues == {Str(<<"A">>), Str(<<"B">>), Str(<<>>), Num("7")}

ProbeDocs == UNION {[K -> ProbeValues] : K \in SUBSET ProbeKeys}

InitProbe ==
    \E doc \in ProbeDocs :
        /\ domains = DomainList(1, ExpectedAmazon)
        /\ concurrency = 1
        /\ strict = FALSE
        /\ rps = 0
        /\ limiter = FALSE
        /\ maxRetries = 0
        /\ apiList = Endpoints(1)
        /\ exchanges = {Doc(doc)}
        /\ answers = {Addrs(1)}
        /\ timed = FALSE
        /\ mainPc = "collect"
        /\ spawned = 1
        /\ wg = 1
        /\ closerPc = "wait"
        /\ sem = 1
        /\ results = <<>>
        /\ domainResults = <<>>
        /\ report = NoReport
        /\ pc = <<"query">>
        /\ ips = <<Addrs(1)>>
        /\ ipIdx = <<1>>
        /\ ipResults = << <<>> >>
        /\ out = <<NoResult>>
        /\ ep = <<1>>
        /\ attempt = <<0>>
        /\ lastErr = <<NilErr>>
        /\ trace = << <<>> >>
        /\ lastReq = <<NoRequest>>
        /\ now = 0
        /\ bucket = [b \in 0..1 |-> 0]
        /\ tokenTimes = <<>>
        /\ wake = <<0>>
        /\ resolved = <<ResolvedTo(Addrs(1))>>
        /\ answered = << <<Unasked>> >>
        /\ callArgs = NoCall
        /\ callRet = NoResult

NextProbe == \E d \in Tasks : Query(d)

SpecProbe == InitProbe /\ [][NextProbe]_vars

\* Domains that differ: two domains with different expected prefixes, each
\* resolving to up to MaxIPs addresses, every request answered by a label
\* that matches the one domain, a label that matches the other, or a failure
\* that is retried; both modes, one slot or more.
ExpectedCloudflare == << <<"CLOUDFLARE">> >>

MixedDomains ==
    <<[Name |-> 1, ExpectedLlcs |-> ExpectedAmazon],
      [Name |-> 2, ExpectedLlcs |-> ExpectedCloudflare]>>

InitIndep ==
    \E c \in 1..MaxConcurrency, s \in BOOLEAN :
        InitWith(MixedDomains, c, s, TRUE, 1, Endpoints(1),
                 {OkAmazon, OkOther, ConnEOF}, AddrLists(MaxIPs))

SpecIndep == InitIndep /\ [][Next]_vars

\* The limiter against the clock, in timed runs at -rps 1 or 2: one domain
\* resolving to MaxLookups addresses, looked up one after the other, each
\* request answered or failing and retried after a pause of one second; two
\* domains of up to MaxIPs addresses each, sharing the limiter, every request
\* answered; two domains of up to one address each, each request answered or
\* failing and retried after the pause.
Rates == {1, 2}

InitRate ==
    \E q \in Rates :
        \/ InitRun(DomainList(1, ExpectedAmazon), 1, FALSE, q, TRUE, 1, Endpoints(1),
                   {OkAmazon, ConnEOF}, {Addrs(MaxLookups)})
        \/ InitRun(DomainList(2, ExpectedAmazon), MaxConcurrency, FALSE, q, TRUE, 1,
                   Endpoints(1), {OkAmazon}, AddrLists(MaxIPs))
        \/ InitRun(DomainList(2, ExpectedAmazon), MaxConcurrency, FALSE, q, TRUE, 1,
                   Endpoints(1), {OkAmazon, ConnEOF}, AddrLists(1))

NextRate == Next \/ Tick

SpecRate == InitRate /\ [][NextRate]_vars

\* The orchestrator under a fair scheduler: main, the closing goroutine and
\* every task take the step they are ready for, every resolution, token wait,
\* request and sleep comes to an end.
Fairness ==
    /\ WF_vars(Spawn)
    /\ WF_vars(StartCloser)
    /\ WF_vars(CloseResults)
    /\ WF_vars(Collect)
    /\ WF_vars(EndCollect)
    /\ WF_vars(Report)
    /\ \A d \in 1..MaxDomains :
          /\ WF_vars(d \in Tasks /\ Acquire(d))
          /\ WF_vars(d \in Tasks /\ Resolve(d))
          /\ WF_vars(d \in Tasks /\ Wait(d))
          /\ WF_vars(d \in Tasks /\ FetchStart(d))
          /\ WF_vars(d \in Tasks /\ Query(d))
          /\ WF_vars(d \in Tasks /\ Sleep(d))
          /\ WF_vars(d \in Tasks /\ Aggregate(d))
          /\ WF_vars(d \in Tasks /\ Send(d))
          /\ WF_vars(d \in Tasks /\ Release(d))
          /\ WF_vars(d \in Tasks /\ WgDone(d))

SpecLive == Init /\ [][Next]_vars /\ Fairness

\* ------------------------------------------------ what the claims speak of

\* The tasks holding a slot of sem: past line 93 and before the deferred <-sem.
Holding(d) ==
    pc[d] \in {"resolve", "wait", "fetch", "query", "sleep", "aggregate", "send", "release"}

Holders == {d \in Tasks : Holding(d)}

\* The entries of domainResults for domain d.
EntriesOf(d) == {i \in 1..Len(domainResults) : domainResults[i].Domain = domains[d].Name}

Summaries == {domainResults[i].Summary : i \in 1..Len(domainResults)}

\* The positions in a trace of its requests, sleeps and tokens.
Reqs(tr) == {i \in 1..Len(tr) : tr[i].t = "req"}
Sleeps(tr) == {i \in 1..Len(tr) : tr[i].t = "sleep"}
Tokens(tr) == {i \in 1..Len(tr) : tr[i].t = "token"}
ReqsOn(tr, e) == {i \in Reqs(tr) : tr[i].ep = e}

\* The latest lookup of task d has returned, and trace[d] is its whole history.
Returned(d) ==
    \/ pc[d] = "aggregate"
    \/ pc[d] = LoopEntry /\ Len(ipResults[d]) >= 1

\* The result of the latest lookup of task d.
LastResult(d) == ipResults[d][Len(ipResults[d])]

\* The lookup of task d goes on with a request to endpoint e: it sleeps before
\* it, or is about to issue it.
StaysOn(d, e) == pc[d] = "sleep" \/ (pc[d] = "query" /\ ep[d] = e)

\* An exchange that failed below HTTP: no response, or a body cut short.
TransportFailure(x) == x.kind \in {"neterr", "readerr"}

\* An exchange that failed above the transport: a status other than 200, a
\* body that is no JSON object, or a document without a label field.
ProtocolFailure(x) ==
    /\ ~TransportFailure(x)
    /\ ~queryLLCFromAPI(x).err.isNil

\* An IP result matches: it has a label, and the label starts with a prefix.
Matches(res, expected) ==
    /\ res.Error.isNil
    /\ \E k \in 1..Len(expected) :
          /\ Len(expected[k]) <= Len(res.ActualLLC)
          /\ SubSeq(res.ActualLLC, 1, Len(expected[k])) = expected[k]

\* -------------------------------------------------------------- claims

\* C1: when the collection loop of main has ended, domainResults holds exactly
\* one DomainResult per configured domain, whichever way each task went, and
\* every task has finished before the report step starts.
C1_OneResultPerDomain ==
    mainPc \in {"report", "exit"} =>
        /\ Len(domainResults) = Len(domains)
        /\ \A d \in Tasks : Cardinality(EntriesOf(d)) = 1
        /\ \A d \in Tasks : pc[d] = "done"

\* C1, reached: the report step of a run of three domains whose tasks went the
\* three ways.
C1_Witness ==
    /\ mainPc = "report"
    /\ Len(domains) = 3
    /\ {"resolution-failed", "no-ipv4-address"} \subseteq Summaries
    /\ Summaries \cap {"lenient-clean", "lenient-polluted", "strict-clean", "strict-polluted"} # {}

\* C2: at most C tasks hold a slot of the semaphore at once, the semaphore
\* counts exactly them, and every other task that has started and not ended
\* waits for a slot.
C2_AtMostCHolders ==
    /\ Cardinality(Holders) <= concurrency
    /\ sem = Cardinality(Holders)
    /\ \A d \in Tasks :
          (d <= spawned /\ ~Holding(d)) => pc[d] \in {"acquire", "wgdone", "done"}

\* C2, reached: every slot is held and a further task waits for one.
C2_Witness ==
    /\ Cardinality(Holders) = concurrency
    /\ concurrency = 2
    /\ \E d \in Tasks : pc[d] = "acquire"

\* C3: with a limiter, every request of a lookup has a token of its own: a
\* token was taken after the request before it, so a lookup never has fewer
\* tokens than requests.
C3_TokenPerRequest ==
    \A d \in Tasks :
        limiter =>
            /\ \A i \in Reqs(trace[d]) :
                  \E j \in Tokens(trace[d]) :
                      /\ j < i
                      /\ \A k \in Reqs(trace[d]) : ~(j < k /\ k < i)
            /\ Cardinality(Tokens(trace[d])) >= Cardinality(Reqs(trace[d]))

\* C4: a lookup requests the endpoints in list order without going back or
\* skipping one, at most maxRetries + 1 times each, and a request that
\* succeeds is the last one, on which the lookup returns its label; so a
\* lookup issues at most |endpoints| * (maxRetries + 1) requests.
C4_EndpointOrder ==
    \A d \in Tasks :
        LET tr == trace[d] IN
        /\ \A i, j \in Reqs(tr) : i < j => tr[i].ep <= tr[j].ep
        /\ \A i \in Reqs(tr) : \A e \in 1..(tr[i].ep - 1) : ReqsOn(tr, e) # {}
        /\ \A i \in Reqs(tr) : tr[i].ep \in 1..Len(apiList)
        /\ \A e \in 1..Len(apiList) : Cardinality(ReqsOn(tr, e)) <= maxRetries + 1
        /\ \A i \in Reqs(tr) :
              tr[i].ok => /\ i = Len(tr)
                          /\ Returned(d)
                          /\ LastResult(d).Error.isNil
                          /\ LastResult(d).ActualLLC = queryLLCFromAPI(lastReq[d].exch).llc
        /\ Cardinality(Reqs(tr)) <= Len(apiList) * (maxRetries + 1)

\* C4, reached: a lookup that used every attempt on the first endpoint and
\* succeeded on the second.
C4_Witness ==
    \E d \in Tasks :
        /\ Returned(d)
        /\ maxRetries = 2
        /\ Cardinality(ReqsOn(trace[d], 1)) = 3
        /\ \E i \in ReqsOn(trace[d], 2) : trace[d][i].ok

\* C5: a request that fails with a transport error or a timeout is retried: if
\* attempts remain on its endpoint, the next request goes to the same endpoint.
C5_TransportRetried ==
    \A d \in Tasks :
        (/\ lastReq[d].ep > 0
         /\ TransportFailure(lastReq[d].exch)
         /\ lastReq[d].attempt < maxRetries)
        => StaysOn(d, lastReq[d].ep)

\* C6: a request that fails with a protocol failure is never retried on its
\* endpoint, whatever the response holds: no sleep, and no further request to
\* that endpoint.
C6_ProtocolNotRetried ==
    \A d \in Tasks :
        (lastReq[d].ep > 0 /\ ProtocolFailure(lastReq[d].exch))
        => ~StaysOn(d, lastReq[d].ep)

\* C7: every sleep of a lookup follows a failed attempt a that has attempts
\* left on its endpoint (a < maxRetries), lasts exactly 2^a seconds, and is
\* followed by a request to the same endpoint; with maxRetries = 2, two
\* failures and a success on one endpoint come with sleeps of 2^0 and 2^1.
C7_SleepIsTwoToTheAttempt ==
    \A d \in Tasks :
        LET tr == trace[d] IN
        /\ \A i \in Sleeps(tr) :
              /\ i > 1
              /\ tr[i - 1].t = "req" /\ ~tr[i - 1].ok
              /\ tr[i - 1].ep = tr[i].ep /\ tr[i - 1].attempt = tr[i].attempt
              /\ tr[i].attempt < maxRetries
              /\ tr[i].dur = Pow2Seconds(tr[i].attempt)
              /\ i < Len(tr) =>
                    /\ tr[i + 1].t = "req"
                    /\ tr[i + 1].ep = tr[i].ep
                    /\ tr[i + 1].attempt = tr[i].attempt + 1
        /\ (/\ maxRetries = 2
            /\ Returned(d)
            /\ Cardinality(Reqs(tr)) = 3
            /\ Cardinality(ReqsOn(tr, 1)) = 3
            /\ tr[Len(tr)].ok)
           => [i \in 1..Cardinality(Sleeps(tr)) |->
                  tr[CHOOSE j \in Sleeps(tr) : Cardinality({k \in Sleeps(tr) : k <= j}) = i].dur]
              = <<Pow2Seconds(0), Pow2Seconds(1)>>

\* C8 as stated: when a lookup moves to the next endpoint, the attempt counter
\* goes on from the value it had on the endpoint before.
C8_CounterCarriesOver ==
    \A d \in Tasks :
        LET tr == trace[d] IN
        \A i \in Reqs(tr) :
            (i > 1 /\ tr[i - 1].t = "req" /\ tr[i - 1].ep < tr[i].ep)
            => tr[i].attempt >= tr[i - 1].attempt

\* C8, amended: when a lookup moves to the next endpoint, the attempt counter
\* starts again at 0: the first request to every endpoint is attempt 0, and
\* the sleep after it, if any, lasts 2^0 seconds whatever the counter had
\* reached on the endpoint before.
C8_CounterRestarts ==
    \A d \in Tasks :
        LET tr == trace[d] IN
        /\ \A i \in Reqs(tr) :
              (i = 1 \/ tr[i - 1].t = "token" \/ tr[i - 1].ep < tr[i].ep)
              => /\ tr[i].attempt = 0
                 /\ (i < Len(tr) /\ tr[i + 1].t = "sleep")
                    => tr[i + 1].dur = Pow2Seconds(0)
        /\ \A i \in Reqs(tr) :
              tr[i].attempt = Cardinality({j \in ReqsOn(tr, tr[i].ep) : j < i})

\* C8, reached: a lookup that retried on the first endpoint, moved on, and
\* sleeps 2^0 seconds after its first failure on the second.
C8_Witness ==
    \E d \in Tasks :
        LET tr == trace[d] IN
        \E i \in Reqs(tr) :
            /\ i > 1 /\ i < Len(tr)
            /\ tr[i].ep = 2
            /\ tr[i - 1].t = "req" /\ tr[i - 1].ep = 1 /\ tr[i - 1].attempt >= 1
            /\ tr[i + 1].t = "sleep" /\ tr[i + 1].dur = Pow2Seconds(0)

\* C9: a lookup returns a failure exactly when none of its requests succeeded,
\* and a failure it returns comes after at least one request and wraps the
\* error of the latest one.
C9_FailureWrapsLatestError ==
    \A d \in Tasks :
        Returned(d) =>
            LET tr == trace[d]
                res == LastResult(d)
            IN  /\ ~res.Error.isNil <=> (\A i \in Reqs(tr) : ~tr[i].ok)
                /\ ~res.Error.isNil =>
                      /\ Reqs(tr) # {}
                      /\ lastReq[d].ep > 0
                      /\ Unwrap(res.Error) = queryLLCFromAPI(lastReq[d].exch).err

\* C10: in lenient mode, for a non-empty ipResults, the domain is clean exactly
\* when at least one IP result has a label that starts with an expected
\* prefix; results that mismatch or failed change nothing.
C10_LenientVerdict ==
    \A d \in Tasks :
        (pc[d] = "send" /\ ~strict /\ Len(ipResults[d]) >= 1)
        => /\ out[d].IsPolluted
              = ~(\E i \in 1..Len(ipResults[d]) :
                      Matches(ipResults[d][i], domains[d].ExpectedLlcs))
           /\ out[d].IPResults = ipResults[d]

\* C10, reached: a lenient verdict of clean over a result that matches, one
\* that mismatches and one that failed.
C10_Witness ==
    \E d \in Tasks :
        /\ pc[d] = "send" /\ ~strict
        /\ ~out[d].IsPolluted
        /\ \E i, j, k \in 1..Len(ipResults[d]) :
              /\ Matches(ipResults[d][i], domains[d].ExpectedLlcs)
              /\ ~ipResults[d][j].Error.isNil
              /\ ipResults[d][k].Error.isNil
              /\ ~Matches(ipResults[d][k], domains[d].ExpectedLlcs)

\* C11: in strict mode the domain aggregated from its IP results is clean
\* exactly when every IP result has a label that starts with an expected
\* prefix; one result that mismatches or failed makes it polluted, and a
\* failed result never matches, whatever its label.
C11_StrictVerdict ==
    (callRet # NoResult /\ callArgs.strict)
    => /\ callRet.IsPolluted
          = ~(\A i \in 1..Len(callArgs.ipResults) :
                  Matches(callArgs.ipResults[i], callArgs.expected))
       /\ callRet.IPResults = callArgs.ipResults

\* C11, reached: a strict verdict of polluted over results that all match but
\* one, a failure whose label starts with an expected prefix.
C11_Witness ==
    /\ callRet # NoResult /\ callArgs.strict
    /\ callRet.IsPolluted
    /\ Len(callArgs.ipResults) >= 2
    /\ \E i \in 1..Len(callArgs.ipResults) :
          /\ ~callArgs.ipResults[i].Error.isNil
          /\ MatchesAny(callArgs.ipResults[i].ActualLLC, callArgs.expected)
          /\ \A j \in 1..Len(callArgs.ipResults) :
                j # i => Matches(callArgs.ipResults[j], callArgs.expected)

\* C12: a domain whose resolution fails or yields no address gets a
\* DomainResult that is polluted and has no IP results, and no token is taken
\* and no lookup made for it (a task is between the limiter and the
\* aggregation only with an address to look up); a domain whose lookups all
\* fail is polluted in both modes; and at the end every domain has its entry.
C12_FailuresArePolluted ==
    /\ \A d \in Tasks :
          /\ pc[d] \in {"wait", "fetch", "query", "sleep", "aggregate"} => ips[d] # <<>>
          /\ (pc[d] = "send" /\ out[d].Summary \in {"resolution-failed", "no-ipv4-address"})
             => /\ out[d].IsPolluted
                /\ out[d].IPResults = <<>>
                /\ ips[d] = <<>> /\ ipResults[d] = <<>>
                /\ trace[d] = <<>> /\ lastReq[d] = NoRequest
          /\ (/\ pc[d] = "send"
              /\ out[d].IPResults # <<>>
              /\ \A i \in 1..Len(out[d].IPResults) : ~out[d].IPResults[i].Error.isNil)
             => out[d].IsPolluted
    /\ mainPc \in {"report", "exit"} =>
          \A d \in Tasks :
              \E i \in 1..Len(domainResults) :
                  /\ domainResults[i].Domain = domains[d].Name
                  /\ domainResults[i].IPResults = <<>> => domainResults[i].IsPolluted

\* C12, reached: the collection ends with the entry of a domain that resolved
\* to no address.
C12_Witness ==
    /\ mainPc = "report"
    /\ \E i \in 1..Len(domainResults) :
          /\ domainResults[i].Summary = "no-ipv4-address"
          /\ domainResults[i].IsPolluted
          /\ domainResults[i].IPResults = <<>>

\* The polluted entries of domainResults.
PollutedEntries == {i \in 1..Len(domainResults) : domainResults[i].IsPolluted}

\* The levels in the order of their severity.
LevelRank(level) ==
    CASE level = "Normal" -> 0
      [] level = "Mild" -> 1
      [] level = "Moderate" -> 2
      [] level = "Severe" -> 3

\* C13: the summary of a run has total = the number of DomainResults,
\* pollutedCount = the number of them that are polluted (between 0 and total)
\* and pollutionRate = pollutedCount / total * 100, or 0 with level Normal for
\* the empty run; one clean and one unresolved domain give total 2,
\* pollutedCount 1, rate 50 and level Moderate.
C13_RunSummary ==
    mainPc = "exit" =>
        /\ report.total = Len(domainResults)
        /\ report.polluted = Cardinality(PollutedEntries)
        /\ 0 <= report.polluted /\ report.polluted <= report.total
        /\ report.total > 0 => report.rateNum * report.total = 100 * report.polluted * report.rateDen
        /\ report.total = 0 => report.rateNum = 0 /\ report.level = "Normal"
        /\ report.rateDen > 0
        /\ (/\ Len(domainResults) = 2
            /\ \E i, j \in 1..2 : /\ domainResults[i].Summary = "lenient-clean"
                                  /\ domainResults[j].Summary = "resolution-failed")
           => /\ report.total = 2
              /\ report.polluted = 1
              /\ report.rateNum = 50 * report.rateDen
              /\ report.level = "Moderate"

\* C13, reached: the report of the run of one clean and one unresolved domain.
C13_Witness ==
    /\ mainPc = "exit"
    /\ Len(domainResults) = 2
    /\ Cardinality(PollutedEntries) = 1
    /\ report.level = "Moderate"

\* C14: the level follows the rate with lower-inclusive, upper-exclusive
\* boundaries at 20, 40 and 60: with 0 <= polluted <= total and total > 0 it is
\* Normal iff 100*polluted < 20*total, Mild iff 20*total <= 100*polluted <
\* 40*total, Moderate iff 40*total <= 100*polluted < 60*total, Severe
\* otherwise; and it never decreases as polluted grows.
C14_LevelBoundaries ==
    (mainPc = "exit" /\ report.total > 0) =>
        LET p == Cardinality(PollutedEntries)
            t == Len(domainResults)
        IN  /\ report.level = "Normal" <=> 100 * p < 20 * t
            /\ report.level = "Mild" <=> (20 * t <= 100 * p /\ 100 * p < 40 * t)
            /\ report.level = "Moderate" <=> (40 * t <= 100 * p /\ 100 * p < 60 * t)
            /\ report.level = "Severe" <=> 60 * t <= 100 * p
            /\ \A q \in 0..(t - 1) :
                  LevelRank(pollutionLevel(100 * q, t))
                      <= LevelRank(pollutionLevel(100 * (q + 1), t))
            /\ \A q \in 0..p : LevelRank(pollutionLevel(100 * q, t)) <= LevelRank(report.level)

\* C14, reached: a run on a boundary, 2 polluted domains of 5, rate 40, level
\* Moderate.
C14_Witness ==
    /\ mainPc = "exit"
    /\ Len(domainResults) = 5
    /\ Cardinality(PollutedEntries) = 2
    /\ report.level = "Moderate"

\* The IP result that the answer x to the latest request for address ip
\* amounts to: the label it carries, or the failure of the lookup.
OwnIPResult(ip, x) ==
    IF x.kind = "none"
    THEN [IP |-> ip, ActualLLC |-> <<>>,
          Error |-> Errorf("all API attempts failed", NilErr)]
    ELSE IF queryLLCFromAPI(x).err.isNil
    THEN [IP |-> ip, ActualLLC |-> queryLLCFromAPI(x).llc, Error |-> NilErr]
    ELSE [IP |-> ip, ActualLLC |-> <<>>,
          Error |-> Errorf("all API attempts failed", queryLLCFromAPI(x).err)]

\* The DomainResult of domain d as a function of nothing but what the
\* resolver returned to its task, what the endpoints answered to its task,
\* its name, its expected prefixes and the mode.
OwnVerdict(d) ==
    LET name == domains[d].Name
        prefixes == domains[d].ExpectedLlcs
        addrs == resolved[d].ips
        own == [k \in 1..Len(addrs) |-> OwnIPResult(addrs[k], answered[d][k])]
        matching == {k \in 1..Len(addrs) : Matches(own[k], prefixes)}
        clean == IF strict THEN matching = 1..Len(addrs) ELSE matching # {}
    IN  IF resolved[d].state = "error"
        THEN [Domain |-> name, Expected |-> prefixes, IPResults |-> <<>>,
              IsPolluted |-> TRUE, Summary |-> "resolution-failed"]
        ELSE IF addrs = <<>>
        THEN [Domain |-> name, Expected |-> prefixes, IPResults |-> <<>>,
              IsPolluted |-> TRUE, Summary |-> "no-ipv4-address"]
        ELSE [Domain |-> name, Expected |-> prefixes, IPResults |-> own,
              IsPolluted |-> ~clean,
              Summary |-> IF strict
                          THEN (IF clean THEN "strict-clean" ELSE "strict-polluted")
                          ELSE (IF clean THEN "lenient-clean" ELSE "lenient-polluted")]

\* The DomainResults of domain d there are: the one its task is about to
\* send, those in the channel and those collected.
ResultsFor(d) ==
    (IF pc[d] = "send" THEN {out[d]} ELSE {})
    \cup {results[i] : i \in {j \in 1..Len(results) : results[j].Domain = domains[d].Name}}
    \cup {domainResults[i] : i \in EntriesOf(d)}

\* How many there are, counted with their places.
ResultCount(d) ==
    (IF pc[d] = "send" THEN 1 ELSE 0)
    + Cardinality({j \in 1..Len(results) : results[j].Domain = domains[d].Name})
    + Cardinality(EntriesOf(d))

\* C16: in every run and at every interleaving, the DomainResult of a domain
\* is the function OwnVerdict of what its own task got from the resolver and
\* from the endpoints, of its expected prefixes and of the mode, so that two
\* runs that differ only in what the other domains got give this domain the
\* same result; it is produced exactly once from the moment its task is about
\* to send, whatever became of the others, every result there is belongs to a
\* configured domain, and at the end of the run every domain has its own.
C16_DomainsIndependent ==
    /\ \A d \in Tasks :
          /\ \A e \in ResultsFor(d) : e = OwnVerdict(d)
          /\ ResultCount(d) =
                IF pc[d] \in {"send", "release", "wgdone", "done"} THEN 1 ELSE 0
    /\ \A i \in 1..Len(results) : \E d \in Tasks : results[i].Domain = domains[d].Name
    /\ \A i \in 1..Len(domainResults) :
          \E d \in Tasks : domainResults[i].Domain = domains[d].Name
    /\ mainPc \in {"report", "exit"} =>
          \A d \in Tasks : \E i \in EntriesOf(d) : domainResults[i] = OwnVerdict(d)

\* C16, reached: the run of two domains with different prefixes has ended;
\* both resolved to the same address and got the same answer to their one
\* request, which makes the first clean and the second polluted.
C16_Witness ==
    /\ mainPc = "exit"
    /\ Len(domains) = 2
    /\ domains[1].ExpectedLlcs # domains[2].ExpectedLlcs
    /\ resolved[1] = resolved[2]
    /\ resolved[1].state = "answer"
    /\ answered[1] = <<OkAmazon>>
    /\ answered[2] = <<OkAmazon>>
    /\ \E i, j \in 1..Len(domainResults) :
          /\ domainResults[i].Domain = 1 /\ ~domainResults[i].IsPolluted
          /\ domainResults[j].Domain = 2 /\ domainResults[j].IsPolluted

\* The addresses of a sequence of IP results.
IPsOf(rs) == [i \in 1..Len(rs) |-> rs[i].IP]

\* C17: within a task the lookups run one after another, the lookup of an
\* address starting only when those of all earlier addresses have returned, so
\* ipResults holds one entry per address looked up, in the resolver's order;
\* when the loop ends it holds one entry per resolved address, and the
\* aggregation hands it on unchanged.
C17_ResultsInResolutionOrder ==
    \A d \in Tasks :
        /\ pc[d] \in {"wait", "fetch", "query", "sleep"} =>
              /\ ipIdx[d] \in 1..Len(ips[d])
              /\ Len(ipResults[d]) = ipIdx[d] - 1
              /\ IPsOf(ipResults[d]) = SubSeq(ips[d], 1, ipIdx[d] - 1)
        /\ pc[d] = "aggregate" => IPsOf(ipResults[d]) = ips[d]
        /\ (pc[d] = "send" /\ out[d].Summary \notin {"resolution-failed", "no-ipv4-address"}) =>
              /\ IPsOf(ipResults[d]) = ips[d]
              /\ out[d].IPResults = ipResults[d]

\* C17, reached: a task about to send the results of three addresses, in the
\* order the resolver gave them, which is not the sorted one.
C17_Witness ==
    \E d \in Tasks :
        /\ pc[d] = "send"
        /\ ips[d] = <<3, 2, 1>>
        /\ IPsOf(out[d].IPResults) = <<3, 2, 1>>
        /\ out[d].IPResults[1].Error.isNil
        /\ ~out[d].IPResults[2].Error.isNil

\* Every IPCheckResult there is: in a task, in a DomainResult about to be
\* sent, in the channel, or collected.
AllIPResults ==
    UNION ({{ipResults[d][i] : i \in 1..Len(ipResults[d])} : d \in Tasks}
           \cup {{out[d].IPResults[i] : i \in 1..Len(out[d].IPResults)} : d \in Tasks}
           \cup {{results[k].IPResults[i] : i \in 1..Len(results[k].IPResults)} :
                    k \in 1..Len(results)}
           \cup {{domainResults[k].IPResults[i] : i \in 1..Len(domainResults[k].IPResults)} :
                    k \in 1..Len(domainResults)})

\* C18: every IPCheckResult has exactly one of label and failure: no error and
\* a non-empty label, or an error and the empty label.
C18_LabelXorFailure ==
    \A res \in AllIPResults :
        \/ res.Error.isNil /\ res.ActualLLC # <<>>
        \/ ~res.Error.isNil /\ res.ActualLLC = <<>>

\* C18, reached: the collected result of an address whose endpoint answered
\* with an empty llc field and a label in the org field.
C18_Witness ==
    /\ mainPc = "report"
    /\ \E k \in 1..Len(domainResults) :
          /\ Len(domainResults[k].IPResults) = 1
          /\ domainResults[k].IPResults[1].Error.isNil
          /\ domainResults[k].IPResults[1].ActualLLC = <<"AMAZON", "X">>

\* The candidate keys in the order the claim gives them.
Candidates == <<"llc", "isp", "carrier", "org", "asn_description">>

\* The positions in Candidates of the keys that data has with a non-empty
\* string.
Usable(data) ==
    {i \in 1..Len(Candidates) :
        /\ Candidates[i] \in DOMAIN data
        /\ data[Candidates[i]].t = "string"
        /\ data[Candidates[i]].v # <<>>}

\* data without the keys that are no candidates.
CandidatesOnly(data) ==
    [k \in DOMAIN data \cap {Candidates[i] : i \in 1..Len(Candidates)} |-> data[k]]

\* C19: the probe returns the value of the first of llc, isp, carrier, org,
\* asn_description that is present with a non-empty string, skipping keys that
\* are absent, hold no string or hold the empty string; it fails exactly when
\* there is no such key; and the keys outside the list change neither the
\* label nor whether it fails.
C19_FirstUsableKey ==
    \A d \in Tasks :
        (pc[d] = "aggregate" /\ lastReq[d].ep > 0 /\ lastReq[d].exch.kind = "doc"
            /\ lastReq[d].exch.status = StatusOK) =>
            LET data == lastReq[d].exch.data
                res == LastResult(d)
                first == CHOOSE i \in Usable(data) : \A j \in Usable(data) : i <= j
            IN  /\ res.Error.isNil <=> Usable(data) # {}
                /\ Usable(data) # {} => res.ActualLLC = data[Candidates[first]].v
                /\ Usable(data) = {} => res.ActualLLC = <<>>
                /\ extractLLC(CandidatesOnly(data)).llc = res.ActualLLC
                /\ extractLLC(CandidatesOnly(data)).err.isNil = res.Error.isNil

\* C19, reached: the probe of a document with an empty llc, a number in isp, no
\* carrier, and strings in org, asn_description and error returns org.
C19_Witness ==
    \E d \in Tasks :
        /\ pc[d] = "aggregate"
        /\ lastReq[d].exch.data =
              [llc |-> Str(<<>>), isp |-> Num("7"), org |-> Str(<<"B">>),
               asn_description |-> Str(<<"A">>), error |-> Str(<<"A">>)]
        /\ LastResult(d).Error.isNil
        /\ LastResult(d).ActualLLC = <<"B">>

\* The run is over: every task has ended, the channel is closed and drained,
\* and main is past the report.
RunOver ==
    /\ mainPc = "exit"
    /\ closerPc = "closed"
    /\ results = <<>>
    /\ Len(domainResults) = Len(domains)
    /\ \A d \in Tasks : pc[d] = "done"

\* C20: under a fair scheduler, with every resolution, token wait, request and
\* sleep coming to an end, every task gets its slot, sends its result and
\* ends, the channel is closed and main reaches the report and finishes; and
\* no state short of that is a deadlock.
C20_RunCompletes ==
    /\ <>RunOver
    /\ [](~RunOver => ENABLED Next)

\* C20, reached: the end of a run of three domains through a single slot.
C20_Witness ==
    /\ RunOver
    /\ Len(domains) = 3
    /\ concurrency = 1
    /\ report.total = 3

\* The values task d has sent: those still buffered in results and those main
\* has taken out of it.
BufferedOf(d) == {i \in 1..Len(results) : results[i].Domain = domains[d].Name}

SentBy(d) == Cardinality(BufferedOf(d)) + Cardinality(EntriesOf(d))

\* Task d is past its send: at the deferred <-sem, at the deferred wg.Done(),
\* or ended.
PastSend(d) == pc[d] \in {"release", "wgdone", "done"}

\* The summaries of the values buffered in results.
BufferedSummaries == {results[i].Summary : i \in 1..Len(results)}

\* C21: the semaphore counts the tasks between their acquire and their one
\* release, so it is 0 when every task has ended; a task has sent exactly one
\* value once it is past its send and none before, and its slot is still
\* counted right after the send; results never buffers more than its capacity,
\* the number of domains, and a task about to send always finds room.
C21_SlotsAndSends ==
    /\ sem = Cardinality(Holders)
    /\ (\A d \in Tasks : pc[d] = "done") => sem = 0
    /\ \A d \in Tasks : SentBy(d) = IF PastSend(d) THEN 1 ELSE 0
    /\ \A d \in Tasks : pc[d] = "release" => sem >= 1
    /\ Len(results) + Len(domainResults) <= Len(domains)
    /\ Len(results) <= Len(domains)
    /\ \A d \in Tasks : pc[d] = "send" => Len(results) < ResultsCapacity

\* C21, reached: three tasks that left by the three ways have ended, no slot
\* is held, and their three values fill the buffer of results.
C21_Witness ==
    /\ Len(domains) = 3
    /\ \A d \in Tasks : pc[d] = "done"
    /\ sem = 0
    /\ Len(results) = 3
    /\ {"resolution-failed", "no-ipv4-address"} \subseteq BufferedSummaries
    /\ BufferedSummaries \cap {"lenient-clean", "lenient-polluted",
                                "strict-clean", "strict-polluted"} # {}

\* The DomainResult has an IP result whose label starts with one of its
\* expected prefixes.
HasMatch(res) == \E k \in 1..Len(res.IPResults) : Matches(res.IPResults[k], res.Expected)

\* What line 137 would return for task d in the given mode.
VerdictIn(d, mode) ==
    aggregateDomainResult(domains[d].Name, domains[d].ExpectedLlcs, ipResults[d], mode)

\* C22: in either mode every DomainResult of the final collection that is not
\* polluted has an IP result whose label starts with an expected prefix; the
\* aggregation of line 137 is never reached with an empty ipResults, so no
\* collected result without IP results is clean, and on the ipResults a task
\* is about to aggregate a clean strict verdict implies a clean lenient one.
C22_CleanHasMatch ==
    /\ \A i \in 1..Len(domainResults) :
          /\ ~domainResults[i].IsPolluted => HasMatch(domainResults[i])
          /\ Len(domainResults[i].IPResults) = 0 => domainResults[i].IsPolluted
    /\ \A d \in Tasks :
          pc[d] = "aggregate" =>
             /\ Len(ipResults[d]) >= 1
             /\ Len(ipResults[d]) = Len(ips[d])
             /\ ~VerdictIn(d, TRUE).IsPolluted => ~VerdictIn(d, FALSE).IsPolluted

\* C22, reached: a finished strict run whose one domain, resolved to MaxIPs
\* addresses, was collected as clean.
C22_Witness ==
    /\ mainPc = "exit"
    /\ strict
    /\ Len(domainResults) = 1
    /\ ~domainResults[1].IsPolluted
    /\ Len(domainResults[1].IPResults) = MaxIPs
    /\ domainResults[1].Summary = "strict-clean"

\* The lookups the tasks have begun or been let through the limiter for.
RECURSIVE LookupsUpTo(_)
LookupsUpTo(d) ==
    IF d = 0 THEN 0
    ELSE LookupsUpTo(d - 1) + Len(answered[d]) + (IF pc[d] = "fetch" THEN 1 ELSE 0)

\* C15: with a limiter at rps = r, the tokens taken by all tasks together are
\* spaced by 1/r: any two of them, the i-th and the j-th, lie at least
\* (j - i)/r time units apart, whichever tasks took them; every lookup of
\* every task has taken one; so n lookups take at least (n - 1)/r time units
\* from the first token on, and 5 lookups at rps = 2 at least 2 time units.
C15_TokensSpaced ==
    limiter =>
        /\ \A i, j \in 1..Len(tokenTimes) :
              i < j => (tokenTimes[j] - tokenTimes[i]) * rps >= (j - i) * TicksPerUnit
        /\ Len(tokenTimes) = LookupsUpTo(Len(domains))
        /\ Len(tokenTimes) >= 1 =>
              (now - tokenTimes[1]) * rps >= (Len(tokenTimes) - 1) * TicksPerUnit
        /\ (rps = 2 /\ Len(tokenTimes) >= 5) => now - tokenTimes[1] >= 2 * TicksPerUnit

\* C15, reached: at rps = 2 two concurrently running tasks have between them
\* taken five tokens, the first after the clock had gone on for a while, and
\* exactly 2 time units have passed since the first.
C15_Witness ==
    /\ rps = 2
    /\ Len(domains) = 2
    /\ Len(tokenTimes) = 5
    /\ tokenTimes[1] > 0
    /\ now - tokenTimes[1] = 2 * TicksPerUnit
    /\ \A d \in Tasks : Len(answered[d]) >= 2 /\ pc[d] \in {"query", "sleep", "fetch"}

=============================================================================
